---- MODULE Spec2Model ----
(***************************************************************************)
(* Model of src/app.py: the Tamil LED text renderer.                       *)
(*                                                                         *)
(* Numbers.  Python computes the layout in floats obtained from 26.6       *)
(* fixed-point values by "/ 64.0" and from sums by "/ 2.0".  Every such    *)
(* value is a dyadic rational with denominator at most 128, which a float  *)
(* holds exactly, so the model keeps each float as the integer number of   *)
(* 1/128 pixel it stands for ("128ths").  Integers of the code (width,     *)
(* height, margin, line_spacing, gx, gy, bitmap sizes) stay integers, and  *)
(* 26.6 values delivered by HarfBuzz and FreeType stay 26.6 integers.      *)
(***************************************************************************)
EXTENDS Integers, Sequences, FiniteSets, TLC

\* ------------------------------------------------------------------ bounds

\* Longest line list handed to a renderer.
MaxLines == 3

\* ---------------------------------------------------------- input domains

\* The texts a line is drawn from, over a blank and two inked letters: empty,
\* whitespace-only, and a padded word.
LineTexts == { <<>>, <<" ">>, <<" ", "a", "b">> }

Widths == {5, 8}
Heights == {6, 64}
Margins == {0, 3}
Aligns == {"left", "center", "right"}
LineSpacings == {0, 2}
Fonts == {"A", "B"}

\* (text_color, bg_color) pairs: the defaults, a coloured pair, a degenerate one.
ColorPairs == { << <<255, 255, 255>>, <<0, 0, 0>> >>,
                << <<255, 165, 0>>, <<255, 255, 255>> >>,
                << <<0, 0, 0>>, <<0, 0, 0>> >> }

\* Who calls: the Streamlit page in one of its two input modes, or a direct
\* call of one of the two render functions.
Entries == {"app:Single Line", "app:Multiple Lines",
            "render_1bit_png_bytes", "render_multiline_text"}

\* ------------------------------------------------------- the collaborators

\* FreeType size metrics of a face, 26.6 (ft_face.size.ascender/descender).
\* The descender is reported as a non-positive number.
FaceAscender(font) == IF font = "A" THEN 1024 ELSE 224
FaceDescender(font) == IF font = "A" THEN -128 ELSE -80

\* The character map and the shaped position of a glyph (26.6).
Cmap(ch) == CASE ch = " " -> 1 [] ch = "a" -> 2 [] ch = "b" -> 3

GlyphPosition(gid) ==
    CASE gid = 1 -> [codepoint |-> 1, x_advance |-> 128, x_offset |-> 0, y_offset |-> 0]
      [] gid = 2 -> [codepoint |-> 2, x_advance |-> 96, x_offset |-> 0, y_offset |-> 0]
      [] gid = 3 -> [codepoint |-> 3, x_advance |-> 192, x_offset |-> -32, y_offset |-> 64]

\* hb_shape: one glyph per character, in text order (infos and positions zipped).
hb_shape(text) == [n \in 1 .. Len(text) |-> GlyphPosition(Cmap(text[n]))]

\* ft_face.load_glyph(gid, FT_LOAD_RENDER | FT_LOAD_TARGET_MONO): the glyph slot.
\* Glyph 1 (space) has no bitmap.  Glyph 2 is 4 x 2 in one byte per row, the
\* second row with its padding bits set.  Glyph 3 is 10 x 1 in two bytes, bits
\* 10-15 set.
load_glyph(gid) ==
    CASE gid = 1 -> [bitmap |-> [width |-> 0, rows |-> 0, pitch |-> 0, buffer |-> <<>>],
                     bitmap_left |-> 0, bitmap_top |-> 0]
      [] gid = 2 -> [bitmap |-> [width |-> 4, rows |-> 2, pitch |-> 1,
                                 buffer |-> <<176, 111>>],
                     bitmap_left |-> -1, bitmap_top |-> 2]
      [] gid = 3 -> [bitmap |-> [width |-> 10, rows |-> 1, pitch |-> 2,
                                 buffer |-> <<129, 127>>],
                     bitmap_left |-> 0, bitmap_top |-> 1]

NoSlot == [bitmap |-> [width |-> 0, rows |-> 0, pitch |-> 0, buffer |-> <<>>],
           bitmap_left |-> 0, bitmap_top |-> 0]

\* ------------------------------------------------------------------ helpers

Max(a, b) == IF a >= b THEN a ELSE b
Min(a, b) == IF a <= b THEN a ELSE b

\* Python's round() on a float given in 128ths, then int(): round half to even.
PyRound(v) ==
    LET f == v \div 128
        r == v % 128
    IN  IF r < 64 THEN f
        ELSE IF r > 64 THEN f + 1
        ELSE IF f % 2 = 0 THEN f ELSE f + 1

\* str.strip() on a text: drop the leading and the trailing blanks.
RECURSIVE lstrip(_)
lstrip(s) == IF s # <<>> /\ Head(s) = " " THEN lstrip(Tail(s)) ELSE s

RECURSIVE rstrip(_)
rstrip(s) ==
    IF s # <<>> /\ s[Len(s)] = " " THEN rstrip(SubSeq(s, 1, Len(s) - 1)) ELSE s

strip(s) == rstrip(lstrip(s))

\* ------------------------------------------------------- unpack_mono_bitmap

\* "1 if (b & mask) else 0" with mask = 1 << (7 - bit).
\* Fault variant: the mask counted from the least significant bit.
MaskedBitLSB(b, bit) == IF (b \div (2 ^ bit)) % 2 = 1 THEN 1 ELSE 0
\* As the code has it: most significant bit first.
MaskedBit(b, bit) == IF (b \div (2 ^ (7 - bit))) % 2 = 1 THEN 1 ELSE 0

\* outy[idx] = v on a row of `width` cells; an index outside the row is numpy's
\* IndexError, kept as the flag oob.
StoreCell(st, idx, v) ==
    IF idx \in DOMAIN st.outy
    THEN [st EXCEPT !.outy[idx] = v]
    ELSE [st EXCEPT !.oob = TRUE]

\* for bit in range(min(8, width - byte_index * 8)): ...
RECURSIVE UnpackBits(_, _, _, _, _)
UnpackBits(st, b, byte_index, bit, n) ==
    IF bit >= n THEN st
    ELSE UnpackBits(StoreCell(st, byte_index * 8 + bit, MaskedBit(b, bit)),
                    b, byte_index, bit + 1, n)

\* for byte_index in range(pitch): b = buffer[rowstart + byte_index]; ...
RECURSIVE UnpackBytes(_, _, _, _)
UnpackBytes(st, bmp, rowstart, byte_index) ==
    IF byte_index >= bmp.pitch THEN st
    ELSE UnpackBytes(
             UnpackBits(st, bmp.buffer[rowstart + byte_index + 1], byte_index, 0,
                        Min(8, bmp.width - byte_index * 8)),
             bmp, rowstart, byte_index + 1)

\* One row y: rowstart = y * pitch; outy = out[y] (zeros).
UnpackRow(bmp, y) ==
    UnpackBytes([outy |-> [c \in 0 .. bmp.width - 1 |-> 0], oob |-> FALSE],
                bmp, y * bmp.pitch, 0)

\* The whole bitmap: out (rows x width) and whether any store fell outside a row.
unpack_mono_bitmap(bmp) ==
    [out |-> [y \in 0 .. bmp.rows - 1 |-> UnpackRow(bmp, y).outy],
     oob |-> \E y \in 0 .. bmp.rows - 1 : UnpackRow(bmp, y).oob,
     h |-> bmp.rows,
     w |-> bmp.width]

NoGlyphImg == [out |-> <<>>, oob |-> FALSE, h |-> 0, w |-> 0]

\* ------------------------------------------------------------------- layout

\* Sum of pos.x_advance / 64.0 over a run, in 128ths (the float accumulator
\* x_advance_total, added in run order).
RECURSIVE AdvanceTotal(_, _, _)
AdvanceTotal(positions, n, acc) ==
    IF n > Len(positions) THEN acc
    ELSE AdvanceTotal(positions, n + 1, acc + 2 * positions[n].x_advance)

\* The initial pen position from the alignment (128ths; total in 128ths).
\* Fault variant: the centred pen without "pen_x = max(margin, pen_x)".
StartPenUnclamped(align, width, margin, total) ==
    IF align = "left" THEN 128 * margin
    ELSE IF align = "right" THEN Max(128 * margin, 128 * (width - margin) - total)
    ELSE (128 * width - total) \div 2
\* As the code has it.
StartPen(align, width, margin, total) ==
    IF align = "left" THEN 128 * margin
    ELSE IF align = "right" THEN Max(128 * margin, 128 * (width - margin) - total)
    ELSE Max(128 * margin, (128 * width - total) \div 2)

\* baseline = (height + ascender - (-descender)) / 2.0   (ascender, descender in
\* 128ths, the descender with FreeType's sign).
\* Fault variant: the descent added as a magnitude.
SingleBaselineAbs(height, ascender, descender) ==
    (128 * height + ascender - descender) \div 2
\* As the code has it.
SingleBaseline(height, ascender, descender) ==
    (128 * height + ascender - (-descender)) \div 2

\* line_height_calc = ascender - descender + line_spacing
\* Fault variant: the descender added with its sign.
LineHeightCalcSigned(ascender, descender, line_spacing) ==
    ascender + descender + 128 * line_spacing
\* As the code has it.
LineHeightCalc(ascender, descender, line_spacing) ==
    ascender - descender + 128 * line_spacing

\* total_text_content_height = len(text_lines) * line_height_calc - line_spacing
\* Fault variant: the spacing after the last line kept.
TotalTextContentHeightTrailing(n, line_height_calc, line_spacing) ==
    n * line_height_calc
\* As the code has it.
TotalTextContentHeight(n, line_height_calc, line_spacing) ==
    n * line_height_calc - 128 * line_spacing

\* start_y_overall = (height - total_text_content_height) / 2.0
StartYOverall(height, total) == (128 * height - total) \div 2

\* baseline = start_y_overall + i * line_height_calc + ascender
LineBaseline(start_y, i, line_height_calc, ascender) ==
    (start_y + i * line_height_calc) + ascender

\* "if not line.strip()": the line is skipped.
\* Fault variant: "if not line", without strip().
IsBlankLineUnstripped(line) == line = <<>>
\* As the code has it.
IsBlankLine(line) == strip(line) = <<>>

\* pen_x += x_advance   (x_advance = pos.x_advance / 64.0)
\* Fault variant: the advance subtracted.
AdvancePenBack(pen, x_advance) == pen - 2 * x_advance
\* As the code has it.
AdvancePen(pen, x_advance) == pen + 2 * x_advance

\* "if w == 0 or h == 0: pen_x += x_advance; continue"
\* Fault variant: the empty bitmap skipped without moving the pen.
AdvancePenNoBitmapSkipped(pen, x_advance) == pen
\* As the code has it.
AdvancePenNoBitmap(pen, x_advance) == pen + 2 * x_advance

\* --------------------------------------------------------------- compositor

\* np.zeros((height, width))
ZeroCanvas(height, width) == [y \in 0 .. height - 1 |-> [x \in 0 .. width - 1 |-> 0]]

\* The cell of sub = glyph_img[(y0 - gy):(y1 - gy), (x0 - gx):(x1 - gx)] that
\* lands on canvas pixel (x, y).
\* Fault variant: sub taken from the corner of the glyph, not from the clip offset.
SubCellFromClip(glyph, ox, oy, x, y) == glyph.out[y - Max(0, oy)][x - Max(0, ox)]
\* As the code has it.
SubCell(glyph, ox, oy, x, y) == glyph.out[y - oy][x - ox]

\* canvas[y0:y1, x0:x1] = np.maximum(canvas[y0:y1, x0:x1], sub)
\* Fault variant: plain assignment of sub.
MergeOverwrite(old, new) == new
\* As the code has it.
Merge(old, new) == Max(old, new)

\* The blit with clipping of one glyph image at (ox, oy).
Blit(cv, glyph, ox, oy, width, height) ==
    LET x0 == Max(0, ox)
        y0 == Max(0, oy)
        x1 == Min(width, ox + glyph.w)
        y1 == Min(height, oy + glyph.h)
    IN  IF x0 < x1 /\ y0 < y1
        THEN [y \in 0 .. height - 1 |-> [x \in 0 .. width - 1 |->
                 IF y0 <= y /\ y < y1 /\ x0 <= x /\ x < x1
                 THEN Merge(cv[y][x], SubCell(glyph, ox, oy, x, y))
                 ELSE cv[y][x]]]
        ELSE cv

\* ------------------------------------------------------- color materializer

\* img = Image.new('RGB', (width, height), color=bg_color); then every pixel
\* whose canvas cell is 1 is set to text_color.  pixels[x, y] is keyed <<x, y>>.
\* Fault variant: Image.new without color=bg_color (black fill).
MaterializeBlackFill(cv, width, height, fg, bg) ==
    [size |-> <<width, height>>,
     pixels |-> [p \in (0 .. width - 1) \X (0 .. height - 1) |->
                    IF cv[p[2]][p[1]] = 1 THEN fg ELSE <<0, 0, 0>>]]
\* As the code has it.
Materialize(cv, width, height, fg, bg) ==
    [size |-> <<width, height>>,
     pixels |-> [p \in (0 .. width - 1) \X (0 .. height - 1) |->
                    IF cv[p[2]][p[1]] = 1 THEN fg ELSE bg]]

NoImage == [size |-> <<0, 0>>, pixels |-> <<>>]

\* No earlier call.
NoFirst == [set |-> FALSE, baseline |-> 0, pen_start |-> 0, canvas |-> <<>>]

\* -------------------------------------------------------------------- state

VARIABLES
    DEPENDENCIES_AVAILABLE, \* the import of freetype and uharfbuzz succeeded
    entry,                  \* who calls (Entries)
    text_input,             \* the raw lines of the request
    font_path, width, height, margin, align, line_spacing,
    pc,                     \* position in the program
    renderer,               \* "none", "single" or "multi"
    text_lines,             \* the lines handed to the renderer
    ascender, descender,    \* face metrics, 128ths
    line_height_calc, start_y_overall,
    canvas,
    i,                      \* index of the current line (0-based)
    positions,              \* the shaped run of the current line
    k,                      \* glyphs of the current run already processed
    x_advance_total, pen_x, baseline,
    pen_start,              \* pen_x as the alignment placed it, before the glyph loop
    slot, glyph_img, gx, gy,
    text_color, bg_color,
    img,                    \* the raster that is encoded and returned
    first,                  \* what an earlier call on the same request computed
    outcome                 \* "pending", "image", "info", "stopped", "error"

request == <<DEPENDENCIES_AVAILABLE, entry, text_input, font_path, width, height,
             margin, align, line_spacing>>
metrics == <<ascender, descender, line_height_calc, start_y_overall>>
lineState == <<positions, k, x_advance_total, pen_x, baseline, pen_start>>
glyphState == <<slot, glyph_img, gx, gy>>
output == <<text_color, bg_color, img, outcome>>

vars == <<first, request, pc, renderer, text_lines, metrics, canvas, i, lineState,
          glyphState, output>>

\* Line lists of 1 .. MaxLines lines.
LineLists == UNION {[1 .. n -> LineTexts] : n \in 1 .. MaxLines}

Init ==
    /\ DEPENDENCIES_AVAILABLE \in BOOLEAN
    /\ entry \in Entries
    /\ text_input \in LineLists
    /\ entry \in {"app:Single Line", "render_1bit_png_bytes"} => Len(text_input) = 1
    /\ font_path \in Fonts
    /\ width \in Widths
    /\ height \in Heights
    /\ margin \in Margins
    /\ align \in Aligns
    /\ line_spacing \in LineSpacings
    /\ pc = "start"
    /\ renderer = "none"
    /\ text_lines = <<>>
    /\ ascender = 0 /\ descender = 0
    /\ line_height_calc = 0 /\ start_y_overall = 0
    /\ canvas = <<>>
    /\ i = 0
    /\ positions = <<>> /\ k = 0
    /\ x_advance_total = 0 /\ pen_x = 0 /\ baseline = 0 /\ pen_start = 0
    /\ slot = NoSlot /\ glyph_img = NoGlyphImg /\ gx = 0 /\ gy = 0
    /\ text_color = <<0, 0, 0>> /\ bg_color = <<0, 0, 0>>
    /\ img = NoImage
    /\ first = NoFirst
    /\ outcome = "pending"

\* ------------------------------------------------------------------ actions

\* The page stops at its dependency check (st.stop()).
AppStop ==
    /\ pc = "start"
    /\ entry \in {"app:Single Line", "app:Multiple Lines"}
    /\ ~DEPENDENCIES_AVAILABLE
    /\ pc' = "done"
    /\ outcome' = "stopped"
    /\ UNCHANGED <<first, request, renderer, text_lines, metrics, canvas, i, lineState,
                   glyphState, text_color, bg_color, img>>

\* text_lines as the page builds it from the input widget of its mode.
AppTextLines ==
    IF entry = "app:Single Line"
    THEN IF text_input[1] # <<>> THEN <<text_input[1]>> ELSE <<>>
    ELSE LET kept == SelectSeq(text_input, LAMBDA line : strip(line) # <<>>)
         IN  [n \in 1 .. Len(kept) |-> strip(kept[n])]

\* The page: no text shows the hint; one line goes to render_1bit_png_bytes,
\* more to render_multiline_text.
AppDispatch ==
    /\ pc = "start"
    /\ entry \in {"app:Single Line", "app:Multiple Lines"}
    /\ DEPENDENCIES_AVAILABLE
    /\ text_lines' = AppTextLines
    /\ IF AppTextLines = <<>>
       THEN /\ pc' = "done"
            /\ outcome' = "info"
            /\ UNCHANGED renderer
       ELSE /\ pc' = "call"
            /\ renderer' = IF Len(AppTextLines) = 1 THEN "single" ELSE "multi"
            /\ UNCHANGED outcome
    /\ UNCHANGED <<first, request, metrics, canvas, i, lineState, glyphState,
                   text_color, bg_color, img>>

\* A direct call of one of the two render functions with the request's lines.
DirectCall ==
    /\ pc = "start"
    /\ entry \in {"render_1bit_png_bytes", "render_multiline_text"}
    /\ text_lines' = text_input
    /\ renderer' = IF entry = "render_1bit_png_bytes" THEN "single" ELSE "multi"
    /\ pc' = "call"
    /\ UNCHANGED <<first, request, metrics, canvas, i, lineState, glyphState, output>>

\* "if not DEPENDENCIES_AVAILABLE: raise ImportError(...)" in either renderer.
RaiseImportError ==
    /\ pc = "call"
    /\ ~DEPENDENCIES_AVAILABLE
    /\ pc' = "done"
    /\ outcome' = "error"
    /\ UNCHANGED <<first, request, renderer, text_lines, metrics, canvas, i, lineState,
                   glyphState, text_color, bg_color, img>>

\* render_1bit_png_bytes up to its glyph loop: shape the text, read the metrics,
\* measure the run, place the pen and the baseline, create the canvas.
BeginSingle ==
    /\ pc = "call"
    /\ DEPENDENCIES_AVAILABLE
    /\ renderer = "single"
    /\ LET run == hb_shape(text_lines[1])
           asc == 2 * FaceAscender(font_path)
           desc == 2 * FaceDescender(font_path)
           total == AdvanceTotal(run, 1, 0)
       IN  /\ positions' = run
           /\ ascender' = asc
           /\ descender' = desc
           /\ x_advance_total' = total
           /\ pen_x' = StartPen(align, width, margin, total)
           /\ pen_start' = StartPen(align, width, margin, total)
           /\ baseline' = SingleBaseline(height, asc, desc)
    /\ canvas' = ZeroCanvas(height, width)
    /\ k' = 0
    /\ pc' = "glyphs"
    /\ UNCHANGED <<first, request, renderer, text_lines, line_height_calc,
                   start_y_overall, i, glyphState, output>>

\* render_multiline_text up to its line loop: metrics, line height, canvas,
\* block height and the top of the block.
BeginMulti ==
    /\ pc = "call"
    /\ DEPENDENCIES_AVAILABLE
    /\ renderer = "multi"
    /\ LET asc == 2 * FaceAscender(font_path)
           desc == 2 * FaceDescender(font_path)
           lh == LineHeightCalc(asc, desc, line_spacing)
           total == TotalTextContentHeight(Len(text_lines), lh, line_spacing)
       IN  /\ ascender' = asc
           /\ descender' = desc
           /\ line_height_calc' = lh
           /\ start_y_overall' = StartYOverall(height, total)
    /\ canvas' = ZeroCanvas(height, width)
    /\ i' = 0
    /\ pc' = "lines"
    /\ UNCHANGED <<first, request, renderer, text_lines, lineState, glyphState, output>>

\* A line that is empty after strip() is skipped: "continue".
SkipLine ==
    /\ pc = "lines"
    /\ i < Len(text_lines)
    /\ IsBlankLine(text_lines[i + 1])
    /\ i' = i + 1
    /\ UNCHANGED <<first, request, pc, renderer, text_lines, metrics, canvas, lineState,
                   glyphState, output>>

\* A line with text: shape it, measure it, place the pen and the baseline.
StartLine ==
    /\ pc = "lines"
    /\ i < Len(text_lines)
    /\ ~IsBlankLine(text_lines[i + 1])
    /\ LET run == hb_shape(text_lines[i + 1])
           total == AdvanceTotal(run, 1, 0)
       IN  /\ positions' = run
           /\ x_advance_total' = total
           /\ pen_x' = StartPen(align, width, margin, total)
           /\ pen_start' = StartPen(align, width, margin, total)
    /\ baseline' = LineBaseline(start_y_overall, i, line_height_calc, ascender)
    /\ k' = 0
    /\ pc' = "glyphs"
    /\ UNCHANGED <<first, request, renderer, text_lines, metrics, canvas, i, glyphState,
                   output>>

\* One pass of the glyph loop (the same in both renderers): load and unpack the
\* glyph, place it, blit it with clipping unless its bitmap is empty, advance
\* the pen.  A store outside a row while unpacking raises.
GlyphStep ==
    /\ pc = "glyphs"
    /\ k < Len(positions)
    /\ LET pos == positions[k + 1]
           s == load_glyph(pos.codepoint)
           g == unpack_mono_bitmap(s.bitmap)
           ox == PyRound(pen_x + 2 * pos.x_offset + 128 * s.bitmap_left)
           oy == PyRound(baseline - 2 * pos.y_offset - 128 * s.bitmap_top)
       IN  /\ slot' = s
           /\ glyph_img' = g
           /\ IF g.oob
              THEN /\ pc' = "done"
                   /\ outcome' = "error"
                   /\ UNCHANGED <<gx, gy, canvas, pen_x, k>>
              ELSE /\ gx' = ox
                   /\ gy' = oy
                   /\ canvas' = IF g.w = 0 \/ g.h = 0
                                THEN canvas
                                ELSE Blit(canvas, g, ox, oy, width, height)
                   /\ pen_x' = IF g.w = 0 \/ g.h = 0
                               THEN AdvancePenNoBitmap(pen_x, pos.x_advance)
                               ELSE AdvancePen(pen_x, pos.x_advance)
                   /\ k' = k + 1
                   /\ UNCHANGED <<pc, outcome>>
    /\ UNCHANGED <<first, request, renderer, text_lines, metrics, i, positions,
                   x_advance_total, baseline, pen_start, text_color, bg_color, img>>

\* The glyph loop of a line of render_multiline_text is over: next line.
EndLine ==
    /\ pc = "glyphs"
    /\ renderer = "multi"
    /\ k = Len(positions)
    /\ i' = i + 1
    /\ pc' = "lines"
    /\ UNCHANGED <<first, request, renderer, text_lines, metrics, canvas, lineState,
                   glyphState, output>>

\* All glyphs are placed: colour the raster, encode it and return it.
Render ==
    /\ \/ pc = "glyphs" /\ renderer = "single" /\ k = Len(positions)
       \/ pc = "lines" /\ renderer = "multi" /\ i = Len(text_lines)
    /\ \E c \in ColorPairs :
          /\ text_color' = c[1]
          /\ bg_color' = c[2]
          /\ img' = Materialize(canvas, width, height, c[1], c[2])
    /\ outcome' = "image"
    /\ pc' = "done"
    /\ UNCHANGED <<first, request, renderer, text_lines, metrics, canvas, i, lineState,
                   glyphState>>

Next ==
    \/ AppStop
    \/ AppDispatch
    \/ DirectCall
    \/ RaiseImportError
    \/ BeginSingle
    \/ BeginMulti
    \/ SkipLine
    \/ StartLine
    \/ GlyphStep
    \/ EndLine
    \/ Render

Spec == Init /\ [][Next]_vars

\* ------------------------------------------- the unpacker on its own inputs

\* Packed bytes and bitmap shapes FreeType can deliver: pitch bytes per row,
\* pitch * 8 >= width, rows * pitch bytes in the buffer.
PackedBytes == {0, 1, 111, 176, 255}
BitmapWidths == {0, 1, 4, 8, 10, 16}
BitmapRows == {1, 2}
BitmapPitches == {1, 2}

Bitmaps ==
    UNION { UNION { UNION {
        { [width |-> w, rows |-> r, pitch |-> p, buffer |-> b] :
              b \in [1 .. r * p -> PackedBytes] }
        : p \in {q \in BitmapPitches : w <= 8 * q} }
        : r \in BitmapRows }
        : w \in BitmapWidths }

InitUnpack ==
    /\ DEPENDENCIES_AVAILABLE = TRUE
    /\ entry = "render_1bit_png_bytes"
    /\ text_input = << <<>> >>
    /\ font_path = "A"
    /\ width = 5 /\ height = 6 /\ margin = 0 /\ align = "left" /\ line_spacing = 0
    /\ pc = "unpack"
    /\ renderer = "none"
    /\ text_lines = <<>>
    /\ ascender = 0 /\ descender = 0
    /\ line_height_calc = 0 /\ start_y_overall = 0
    /\ canvas = <<>>
    /\ i = 0
    /\ positions = <<>> /\ k = 0
    /\ x_advance_total = 0 /\ pen_x = 0 /\ baseline = 0 /\ pen_start = 0
    /\ \E b \in Bitmaps : slot = [bitmap |-> b, bitmap_left |-> 0, bitmap_top |-> 0]
    /\ glyph_img = NoGlyphImg /\ gx = 0 /\ gy = 0
    /\ text_color = <<0, 0, 0>> /\ bg_color = <<0, 0, 0>>
    /\ img = NoImage
    /\ first = NoFirst
    /\ outcome = "pending"

\* glyph_img = unpack_mono_bitmap(bmp)
UnpackBitmap ==
    /\ pc = "unpack"
    /\ glyph_img' = unpack_mono_bitmap(slot.bitmap)
    /\ pc' = "unpacked"
    /\ UNCHANGED <<first, request, renderer, text_lines, metrics, canvas, i, lineState,
                   slot, gx, gy, output>>

NextUnpack == UnpackBitmap

SpecUnpack == InitUnpack /\ [][NextUnpack]_vars

\* ------------------------------- the two renderers on one one-line request

\* render_1bit_png_bytes(text, ...) is called with a text that is not blank.
InitBoth ==
    /\ Init
    /\ DEPENDENCIES_AVAILABLE
    /\ entry = "render_1bit_png_bytes"
    /\ ~IsBlankLine(text_input[1])

\* After it has returned, render_multiline_text([text], ...) is called with the
\* same font, canvas size, margin, alignment and the request's line_spacing;
\* what the first call computed is kept for comparison.
CallMultilineToo ==
    /\ pc = "done"
    /\ renderer = "single"
    /\ outcome = "image"
    /\ ~first.set
    /\ first' = [set |-> TRUE, baseline |-> baseline, pen_start |-> pen_start,
                 canvas |-> canvas]
    /\ renderer' = "multi"
    /\ text_lines' = text_input
    /\ img' = NoImage
    /\ outcome' = "pending"
    /\ pc' = "call"
    /\ UNCHANGED <<request, metrics, canvas, i, lineState, glyphState,
                   text_color, bg_color>>

NextBoth ==
    \/ DirectCall
    \/ BeginSingle
    \/ BeginMulti
    \/ StartLine
    \/ GlyphStep
    \/ EndLine
    \/ Render
    \/ CallMultilineToo

SpecBoth == InitBoth /\ [][NextBoth]_vars

\* ------------------------------------------------------------------- claims

Abs(n) == IF n < 0 THEN -n ELSE n

\* The total advance of a run in 128ths, summed from its last glyph back.
RECURSIVE RunAdvance(_)
RunAdvance(run) ==
    IF run = <<>> THEN 0
    ELSE RunAdvance(SubSeq(run, 1, Len(run) - 1)) + 2 * run[Len(run)].x_advance

\* A line's pen is at its start: the run is shaped and no glyph is processed.
AtLineStart == pc = "glyphs" /\ k = 0

\* C1: in both renderers the starting pen position is M for 'left',
\* max(M, W - M - A) for 'right' and max(M, (W - A)/2) for 'center', for every
\* width W, margin M and total advance A; so it is never left of the margin.
C1_StartPen ==
    AtLineStart =>
        LET A == RunAdvance(positions)
            M == 128 * margin
            W == 128 * width
        IN  /\ align = "left" => pen_x = M
            /\ align = "right" => pen_x = Max(M, W - M - A)
            /\ align = "center" => 2 * pen_x = Max(2 * M, W - A)
            /\ pen_x >= M

\* C1's case: the run is wider than the canvas and the margins exceed it, and
\* the right-aligned pen is clamped to the margin.
C1_Witness ==
    /\ AtLineStart
    /\ align = "right"
    /\ RunAdvance(positions) > 128 * width
    /\ 2 * margin > width
    /\ pen_x = 128 * margin

\* The single-line renderer has placed its baseline.
SingleBaselineSet == renderer = "single" /\ (pc = "glyphs" \/ outcome = "image")

\* C2 as stated: the single-line baseline is
\* (canvas_height + ascender + |descender|) / 2.
C2_Original ==
    SingleBaselineSet =>
        2 * baseline = 128 * height + 2 * FaceAscender(font_path)
                           + 2 * Abs(FaceDescender(font_path))

\* C2 as amended: the single-line baseline is
\* (canvas_height + ascender - |descender|) / 2, the descender being reported
\* as a non-positive number, whatever the number of glyphs: the box from
\* baseline - ascender to baseline + |descender| is centred in the canvas.
C2_SingleBaseline ==
    SingleBaselineSet =>
        /\ 2 * baseline = 128 * height + 2 * FaceAscender(font_path)
                              - 2 * Abs(FaceDescender(font_path))
        /\ (baseline - 2 * FaceAscender(font_path))
               + (baseline + 2 * Abs(FaceDescender(font_path))) = 128 * height

\* C2's case: a run of several glyphs has been placed on that baseline by a
\* face with a descent.
C2_Witness ==
    /\ SingleBaselineSet
    /\ pc = "glyphs"
    /\ k >= 2
    /\ FaceDescender(font_path) < 0
    /\ font_path = "B" /\ height = 6 /\ baseline = 528

\* C3: with N lines, H = ascender + |descender| + S and canvas height Ch, the
\* block height is N*H - S, start_y = (Ch - (N*H - S))/2 and line i gets the
\* baseline start_y + i*H + ascender; H=20, S=2, Ch=64, ascender=16, N=2 gives
\* start_y 13 and the baselines 29 and 49.
C3_MultiBaseline ==
    (pc = "glyphs" /\ renderer = "multi") =>
        LET N == Len(text_lines)
            asc == 2 * FaceAscender(font_path)
            S == 128 * line_spacing
            H == asc + 2 * Abs(FaceDescender(font_path)) + S
            block == N * H - S
        IN  /\ 2 * start_y_overall = 128 * height - block
            /\ 2 * baseline = 128 * height - block + 2 * i * H + 2 * asc
            /\ (H = 20 * 128 /\ S = 2 * 128 /\ height = 64 /\ asc = 16 * 128 /\ N = 2) =>
                   /\ block = 38 * 128
                   /\ start_y_overall = 13 * 128
                   /\ i = 0 => baseline = 29 * 128
                   /\ i = 1 => baseline = 49 * 128

\* C3's case: the fixture of the claim, at its second line.
C3_Witness ==
    /\ pc = "glyphs" /\ renderer = "multi"
    /\ Len(text_lines) = 2 /\ i = 1
    /\ FaceAscender(font_path) = 16 * 64 /\ FaceDescender(font_path) = -(2 * 64)
    /\ line_spacing = 2 /\ height = 64
    /\ line_height_calc = 20 * 128
    /\ baseline = 49 * 128

\* A line made of blanks only (the empty line included).
WhitespaceOnly(line) == \A n \in 1 .. Len(line) : line[n] = " "

\* C4: in the multi-line renderer a whitespace-only line gets no glyph pass, so
\* nothing of it is composited (the step that passes it leaves the canvas as
\* it is), and it still counts as a line: the baseline of a rendered line i
\* depends only on i and on the number of lines, blank ones included.
C4_BlankLineReserved ==
    [][ /\ (pc = "lines" /\ i < Len(text_lines) /\ WhitespaceOnly(text_lines[i + 1]))
            => (canvas' = canvas /\ pc' = "lines" /\ i' = i + 1)
        /\ (pc' = "glyphs" /\ renderer' = "multi") =>
               LET N == Len(text_lines')
                   asc == 2 * FaceAscender(font_path)
                   H == asc + 2 * Abs(FaceDescender(font_path)) + 128 * line_spacing
               IN  /\ ~WhitespaceOnly(text_lines'[i' + 1])
                   /\ 2 * baseline' = 128 * height - (N * H - 128 * line_spacing)
                                          + 2 * i' * H + 2 * asc
      ]_vars

\* C4's case: three lines, the middle one whitespace-only; the third has been
\* rendered two line heights below the first.
C4_Witness ==
    /\ pc = "glyphs" /\ renderer = "multi"
    /\ Len(text_lines) = 3
    /\ text_lines[2] = <<" ">>
    /\ ~WhitespaceOnly(text_lines[1])
    /\ i = 2
    /\ k = Len(positions)
    /\ baseline = start_y_overall + 2 * line_height_calc + ascender

\* C5: coverage is monotonic within a render: a canvas pixel that is set stays
\* set after every later step, so the count of set pixels never decreases.
C5_MonotonicCoverage ==
    [][ canvas # <<>> =>
            \A y \in 0 .. height - 1 : \A x \in 0 .. width - 1 :
                canvas[y][x] = 1 => canvas'[y][x] = 1 ]_vars

\* The pixels of the canvas inside the rectangle of the glyph placed last.
LastGlyphPixels ==
    {p \in (0 .. width - 1) \X (0 .. height - 1) :
        /\ gx <= p[1] /\ p[1] < gx + glyph_img.w
        /\ gy <= p[2] /\ p[2] < gy + glyph_img.h}

\* C5's case: the glyph composited last covers, without ink there, a pixel an
\* earlier glyph had set, and the pixel is still set.
C5_Witness ==
    /\ pc = "glyphs" /\ k >= 2
    /\ \E p \in LastGlyphPixels :
          /\ glyph_img.out[p[2] - gy][p[1] - gx] = 0
          /\ canvas[p[2]][p[1]] = 1

\* Bit n (0 = first) of packed row y of a bitmap, most significant bit first.
RowBit(bmp, y, n) ==
    (bmp.buffer[y * bmp.pitch + (n \div 8) + 1] \div (2 ^ (7 - (n % 8)))) % 2

\* A packed byte with its bits at row positions >= width cleared.
RECURSIVE ClearedByte(_, _, _, _)
ClearedByte(bmp, y, byte_index, bit) ==
    IF bit > 7 THEN 0
    ELSE (IF byte_index * 8 + bit < bmp.width
          THEN RowBit(bmp, y, byte_index * 8 + bit) * (2 ^ (7 - bit))
          ELSE 0)
         + ClearedByte(bmp, y, byte_index, bit + 1)

\* The bitmap with all its row padding cleared.
ClearPadding(bmp) ==
    [bmp EXCEPT !.buffer =
        [n \in 1 .. Len(bmp.buffer) |->
            ClearedByte(bmp, (n - 1) \div bmp.pitch, (n - 1) % bmp.pitch, 0)]]

\* C6: the unpacker returns exactly rows x width cells, cell (y, n) being 1 iff
\* bit n of packed row y is set, most significant bit first; the bits at
\* positions >= width change nothing and no store falls outside a row.
C6_Unpack ==
    pc = "unpacked" =>
        LET bmp == slot.bitmap
        IN  /\ ~glyph_img.oob
            /\ DOMAIN glyph_img.out = 0 .. bmp.rows - 1
            /\ \A y \in 0 .. bmp.rows - 1 :
                  /\ DOMAIN glyph_img.out[y] = 0 .. bmp.width - 1
                  /\ \A n \in 0 .. bmp.width - 1 :
                        /\ glyph_img.out[y][n] \in {0, 1}
                        /\ glyph_img.out[y][n] = 1 <=> RowBit(bmp, y, n) = 1
            /\ glyph_img = unpack_mono_bitmap(ClearPadding(bmp))

\* C6's case: a 10-bit row in two bytes whose first byte is 0b10110000 and
\* whose bits 10-15 are all set is unpacked to 1,0,1,1,0,0,0,0,1,1.
C6_Witness ==
    /\ pc = "unpacked"
    /\ slot.bitmap = [width |-> 10, rows |-> 1, pitch |-> 2, buffer |-> <<176, 255>>]
    /\ glyph_img.out[0] = [n \in 0 .. 9 |-> IF n \in {0, 2, 3, 8, 9} THEN 1 ELSE 0]

\* C7: the returned raster has exactly canvas_width x canvas_height pixels, and
\* pixel (x, y) is the foreground colour if canvas pixel (x, y) is set and the
\* background colour otherwise, for any two colours, equal ones included.
C7_Materialize ==
    outcome = "image" =>
        /\ img.size = <<width, height>>
        /\ DOMAIN img.pixels = (0 .. width - 1) \X (0 .. height - 1)
        /\ \A x \in 0 .. width - 1 : \A y \in 0 .. height - 1 :
              /\ canvas[y][x] = 1 => img.pixels[<<x, y>>] = text_color
              /\ canvas[y][x] # 1 => img.pixels[<<x, y>>] = bg_color
              /\ img.pixels[<<x, y>>] \in {text_color, bg_color}

\* C7's case: a raster with ink in the foreground colour on a background of
\* another colour that is not black.
C7_Witness ==
    /\ outcome = "image"
    /\ text_color # bg_color /\ bg_color # <<0, 0, 0>>
    /\ \E x \in 0 .. width - 1 : \E y \in 0 .. height - 1 :
          canvas[y][x] = 1 /\ img.pixels[<<x, y>>] = text_color
    /\ \E x \in 0 .. width - 1 : \E y \in 0 .. height - 1 :
          canvas[y][x] = 0 /\ img.pixels[<<x, y>>] = bg_color

\* The request's text is empty after trimming: every line of it is.
EmptyAfterTrimming == \A n \in 1 .. Len(text_input) : WhitespaceOnly(text_input[n])

\* C8: a request whose text is empty after trimming ends in an input error
\* surfaced to the caller (the page's hint counts as one), and no raster is
\* returned for it.
C8_EmptyTextRejected ==
    (pc = "done" /\ DEPENDENCIES_AVAILABLE /\ EmptyAfterTrimming) =>
        /\ outcome \in {"error", "info"}
        /\ img = NoImage

\* C9: within one line the pen never moves back: each pass of the glyph loop
\* leaves pen_x at or right of where it was.
C9_PenNonDecreasing ==
    [][ (pc = "glyphs" /\ pc' = "glyphs" /\ k' = k + 1) => pen_x' >= pen_x ]_vars

\* C9's case: a run of three glyphs is processed and the pen has moved right
\* of where the line started.
C9_Witness ==
    /\ pc = "glyphs"
    /\ k = 3 /\ k = Len(positions)
    /\ pen_x > StartPen(align, width, margin, x_advance_total)

\* C10: a composite step of a w x h glyph at (gx, gy) changes only canvas
\* pixels inside the intersection of [gx, gx+w) x [gy, gy+h) with the canvas,
\* merging source cell (x - gx, y - gy) into pixel (x, y); with an empty
\* intersection the canvas is unchanged and nothing is raised.
C10_CompositeClipped ==
    [][ (pc = "glyphs" /\ k < Len(positions)) =>
            /\ outcome' # "error"
            /\ pc' = "glyphs"
            /\ \A x \in 0 .. width - 1 : \A y \in 0 .. height - 1 :
                  IF /\ gx' <= x /\ x < gx' + glyph_img'.w
                     /\ gy' <= y /\ y < gy' + glyph_img'.h
                  THEN canvas'[y][x] =
                           Max(canvas[y][x], glyph_img'.out[y - gy'][x - gx'])
                  ELSE canvas'[y][x] = canvas[y][x]
      ]_vars

\* C10's case: a glyph placed with negative gx, partly on the canvas, has left
\* ink there.
C10_Witness ==
    /\ pc = "glyphs" /\ k >= 1
    /\ gx < 0 /\ gx + glyph_img.w > 0
    /\ \E p \in LastGlyphPixels :
          glyph_img.out[p[2] - gy][p[1] - gx] = 1 /\ canvas[p[2]][p[1]] = 1

\* The advances of the first n glyphs of a run, in 128ths.
RECURSIVE PrefixAdvance(_, _)
PrefixAdvance(run, n) ==
    IF n = 0 THEN 0 ELSE PrefixAdvance(run, n - 1) + 2 * run[n].x_advance

\* C11: the pen advances by x_advance/64 exactly once per glyph, whether the
\* glyph was drawn, had an empty bitmap or was clipped off the canvas: after k
\* glyphs pen_x is the starting pen position plus the first k advances, and
\* after the whole run it is the starting position plus total_advance.
C11_PenAdvance ==
    pc = "glyphs" =>
        /\ pen_x = pen_start + PrefixAdvance(positions, k)
        /\ k = Len(positions) => pen_x = pen_start + x_advance_total
        /\ x_advance_total = PrefixAdvance(positions, Len(positions))

\* C11's case: a run whose first glyph has no bitmap, whose second is drawn and
\* whose last lies wholly right of the canvas is over, the pen one total
\* advance right of its start.
C11_Witness ==
    /\ pc = "glyphs"
    /\ k = 3 /\ k = Len(positions)
    /\ load_glyph(positions[1].codepoint).bitmap.width = 0
    /\ \E x \in 0 .. width - 1 : \E y \in 0 .. height - 1 : canvas[y][x] = 1
    /\ glyph_img.w > 0 /\ gx >= width
    /\ pen_x = pen_start + x_advance_total
    /\ pen_x > pen_start

====
